---------------------------- MODULE Spec2Model ----------------------------
(***************************************************************************)
(* Model of figaro/coordinates.py: conversions between Cartesian,          *)
(* spherical and celestial coordinates and the Jacobians between them.     *)
(*                                                                         *)
(* Numbers.  The code computes on IEEE doubles.  The model computes in     *)
(* exact real arithmetic on the values that have an exact finite           *)
(* representation here:                                                    *)
(*   "fin"    (a + b*sqrt(3)) / d    with integers a, b and d > 0          *)
(*   "ang"    a * pi/6               with an integer a # 0                 *)
(* and on the IEEE special values the code produces for them:              *)
(*   "nzero"  -0.0,  "pinf"  +inf,  "ninf"  -inf,  "nan"  NaN.             *)
(* A real value outside this set is "off": it is carried through every     *)
(* operation and equals no value a claim expects.  Rounding error of the   *)
(* doubles is not modelled: a result is the value the tolerance of a       *)
(* claim is measured from.                                                 *)
(***************************************************************************)
EXTENDS Integers, Sequences, FiniteSets

Abs(n) == IF n < 0 THEN -n ELSE n

RECURSIVE Gcd(_, _)
Gcd(m, n) == IF n = 0 THEN m ELSE Gcd(n, m % n)

\* (a + b*sqrt(3)) / d in lowest terms with a positive denominator.
Q(a, b, d) ==
    LET s == IF d < 0 THEN -1 ELSE 1
        g == Gcd(Gcd(Abs(a), Abs(b)), Abs(d))
    IN  [k |-> "fin", a |-> (s * a) \div g, b |-> (s * b) \div g, d |-> (s * d) \div g]

Zero == [k |-> "fin", a |-> 0, b |-> 0, d |-> 1]
One == [k |-> "fin", a |-> 1, b |-> 0, d |-> 1]
Two == [k |-> "fin", a |-> 2, b |-> 0, d |-> 1]
MinusOne == [k |-> "fin", a |-> -1, b |-> 0, d |-> 1]
NegZero == [k |-> "nzero", a |-> 0, b |-> 0, d |-> 1]
PosInf == [k |-> "pinf", a |-> 0, b |-> 0, d |-> 1]
NegInf == [k |-> "ninf", a |-> 0, b |-> 0, d |-> 1]
NaN == [k |-> "nan", a |-> 0, b |-> 0, d |-> 1]
Off == [k |-> "off", a |-> 0, b |-> 0, d |-> 1]

\* n * pi/6; the zero angle is the number 0.
Ang(n) == IF n = 0 THEN Zero ELSE [k |-> "ang", a |-> n, b |-> 0, d |-> 6]

\* np.pi and 2*np.pi
Pi == [k |-> "ang", a |-> 6, b |-> 0, d |-> 6]

IsZero(v) == v = Zero \/ v = NegZero
IsInf(v) == v.k = "pinf" \/ v.k = "ninf"

\* Sign of a + b*sqrt(3).
SgnAB(a, b) ==
    IF a = 0 /\ b = 0 THEN 0
    ELSE IF a >= 0 /\ b >= 0 THEN 1
    ELSE IF a <= 0 /\ b <= 0 THEN -1
    ELSE IF a > 0 THEN (IF a * a > 3 * b * b THEN 1 ELSE -1)
    ELSE (IF 3 * b * b > a * a THEN 1 ELSE -1)

\* The IEEE sign bit of a value that is neither NaN nor off.
SignBit(v) ==
    CASE v.k = "fin" -> SgnAB(v.a, v.b) < 0
      [] v.k = "ang" -> v.a < 0
      [] v.k = "nzero" -> TRUE
      [] v.k = "ninf" -> TRUE
      [] OTHER -> FALSE

SignedZero(neg) == IF neg THEN NegZero ELSE Zero
SignedInf(neg) == IF neg THEN NegInf ELSE PosInf

\* The comparison v < 0 of the doubles: false for NaN and for both zeros.
Less0(v) ==
    CASE v.k = "fin" -> SgnAB(v.a, v.b) < 0
      [] v.k = "ang" -> v.a < 0
      [] v.k = "ninf" -> TRUE
      [] OTHER -> FALSE

\* The product of two doubles.
Mul(v, w) ==
    LET neg == SignBit(v) # SignBit(w)
    IN  CASE v.k = "off" \/ w.k = "off" -> Off
          [] v.k = "nan" \/ w.k = "nan" -> NaN
          [] IsZero(v) \/ IsZero(w) ->
                IF IsInf(v) \/ IsInf(w) THEN NaN ELSE SignedZero(neg)
          [] IsInf(v) \/ IsInf(w) -> SignedInf(neg)
          [] v.k = "fin" /\ w.k = "fin" ->
                Q(v.a * w.a + 3 * v.b * w.b, v.a * w.b + v.b * w.a, v.d * w.d)
          [] v.k = "fin" /\ w.k = "ang" ->
                IF v.b = 0 /\ (v.a * w.a) % v.d = 0
                THEN Ang((v.a * w.a) \div v.d) ELSE Off
          [] v.k = "ang" /\ w.k = "fin" ->
                IF w.b = 0 /\ (w.a * v.a) % w.d = 0
                THEN Ang((w.a * v.a) \div w.d) ELSE Off
          [] OTHER -> Off

\* The sum of two doubles.
Add(v, w) ==
    CASE v.k = "off" \/ w.k = "off" -> Off
      [] v.k = "nan" \/ w.k = "nan" -> NaN
      [] IsInf(v) /\ IsInf(w) -> IF v = w THEN v ELSE NaN
      [] IsInf(v) -> v
      [] IsInf(w) -> w
      [] IsZero(v) /\ IsZero(w) -> IF v = NegZero /\ w = NegZero THEN NegZero ELSE Zero
      [] IsZero(v) -> w
      [] IsZero(w) -> v
      [] v.k = "fin" /\ w.k = "fin" ->
            Q(v.a * w.d + w.a * v.d, v.b * w.d + w.b * v.d, v.d * w.d)
      [] v.k = "ang" /\ w.k = "ang" -> Ang(v.a + w.a)
      [] OTHER -> Off

\* The quotient of two doubles: a zero divisor gives NaN or an infinity.
Div(v, w) ==
    LET neg == SignBit(v) # SignBit(w)
    IN  CASE v.k = "off" \/ w.k = "off" -> Off
          [] v.k = "nan" \/ w.k = "nan" -> NaN
          [] IsZero(w) -> IF IsZero(v) THEN NaN ELSE SignedInf(neg)
          [] IsInf(w) -> IF IsInf(v) THEN NaN ELSE SignedZero(neg)
          [] IsZero(v) -> SignedZero(neg)
          [] IsInf(v) -> SignedInf(neg)
          [] v.k = "fin" /\ w.k = "fin" ->
                Mul(v, Q(w.d * w.a, -(w.d * w.b), w.a * w.a - 3 * w.b * w.b))
          [] v.k = "ang" /\ w.k = "fin" ->
                IF w.b = 0 /\ (v.a * w.d) % w.a = 0
                THEN Ang((v.a * w.d) \div w.a) ELSE Off
          [] OTHER -> Off

IsSquare(n) == \E m \in 0..n : m * m = n
ISqrt(n) == CHOOSE m \in 0..n : m * m = n

\* The square root of a double.
Sqrt(v) ==
    CASE v.k = "off" -> Off
      [] v.k = "nan" \/ v.k = "ninf" -> NaN
      [] v.k = "pinf" -> PosInf
      [] IsZero(v) -> v
      [] v.k = "fin" /\ SgnAB(v.a, v.b) < 0 -> NaN
      [] v.k = "fin" /\ v.b = 0 /\ IsSquare(v.a * v.d) -> Q(ISqrt(v.a * v.d), 0, v.d)
      [] v.k = "fin" /\ v.b = 0 /\ (v.a * v.d) % 3 = 0 /\ IsSquare((v.a * v.d) \div 3) ->
            Q(0, ISqrt((v.a * v.d) \div 3), v.d)
      [] OTHER -> Off

\* sin(n * pi/6)
SinTab(n) ==
    LET m == n % 12
    IN  CASE m = 0 \/ m = 6 -> Zero
          [] m = 1 \/ m = 5 -> Q(1, 0, 2)
          [] m = 2 \/ m = 4 -> Q(0, 1, 2)
          [] m = 3 -> One
          [] m = 7 \/ m = 11 -> Q(-1, 0, 2)
          [] m = 8 \/ m = 10 -> Q(0, -1, 2)
          [] OTHER -> Q(-1, 0, 1)

\* cos(n * pi/6)
CosTab(n) == SinTab(n + 3)

\* np.sin
Sin(v) ==
    CASE v.k = "off" -> Off
      [] v.k = "nan" \/ IsInf(v) -> NaN
      [] IsZero(v) -> v
      [] v.k = "ang" -> SinTab(v.a)
      [] OTHER -> Off

\* np.cos
Cos(v) ==
    CASE v.k = "off" -> Off
      [] v.k = "nan" \/ IsInf(v) -> NaN
      [] IsZero(v) -> One
      [] v.k = "ang" -> CosTab(v.a)
      [] OTHER -> Off

\* np.arcsin: the angle in [-pi/2, pi/2] with the given sine.
ArcSin(v) ==
    CASE v.k = "off" -> Off
      [] v.k = "nan" \/ IsInf(v) -> NaN
      [] IsZero(v) -> v
      [] v.k = "fin" /\ (\E n \in -3..3 : SinTab(n) = v) ->
            Ang(CHOOSE n \in -3..3 : SinTab(n) = v)
      [] v.k = "fin" /\ (Less0(Add(v, One)) \/ Less0(Add(One, Mul(MinusOne, v)))) -> NaN
      [] OTHER -> Off

\* Whether n * pi/6 is the direction of the point with ordinate v and abscissa w.
IsDirection(n, v, w) ==
    /\ IsZero(Add(Mul(v, CosTab(n)), Mul(MinusOne, Mul(w, SinTab(n)))))
    /\ ~Less0(Add(Mul(v, SinTab(n)), Mul(w, CosTab(n))))

\* np.arctan2(v, w): the angle in [-pi, pi] of the point with ordinate v and abscissa w.
ArcTan2(v, w) ==
    CASE v.k = "off" \/ w.k = "off" -> Off
      [] v.k = "nan" \/ w.k = "nan" -> NaN
      [] v = Zero /\ (w.k = "fin" \/ w.k = "nzero") ->
            IF SignBit(w) THEN Pi ELSE Zero
      [] v = NegZero /\ (w.k = "fin" \/ w.k = "nzero") ->
            IF SignBit(w) THEN Ang(-6) ELSE NegZero
      [] v.k = "fin" /\ IsZero(w) -> IF SignBit(v) THEN Ang(-3) ELSE Ang(3)
      [] v.k = "fin" /\ w.k = "fin" /\ (\E n \in -5..5 : IsDirection(n, v, w)) ->
            Ang(CHOOSE n \in -5..5 : IsDirection(n, v, w))
      [] OTHER -> Off

(***************************************************************************)
(* Arrays.  A numpy array is a handle (the buffer it reads and writes, and *)
(* its shape) on a heap of buffers; a buffer holds its elements in row     *)
(* order.  A view (np.atleast_2d of an array) is a handle on the same      *)
(* buffer, a new array is a handle on a new buffer.  An array operation    *)
(* takes the heap and returns [h |-> the heap after it, v |-> its value],  *)
(* the value being a handle or the exception raised.                       *)
(***************************************************************************)
Handle(b, s) == [err |-> "", buf |-> b, shape |-> s]
Raise(e) == [err |-> e, buf |-> 0, shape |-> <<>>]
None == [err |-> "", buf |-> 0, shape |-> <<>>]
NDim(arr) == Len(arr.shape)

\* arr[i, j] of a 2-D array and arr[i] of a 1-D array (indices from 1).
At2(h, arr, i, j) == h[arr.buf][(i - 1) * arr.shape[2] + j]
At1(h, arr, i) == h[arr.buf][i]

\* A new array holding data.
New(h, data, s) == [h |-> Append(h, data), v |-> Handle(Len(h) + 1, s)]

\* The index arr[:, j] of an array that is not 2-D.
IndexError(h) == [h |-> h, v |-> Raise("IndexError")]

\* Variant of atleast_2d that leaves a 1-D array as it is (the coercion forgotten).
atleast_2d_skipped(arr) == arr

\* np.atleast_2d: a 1-D array of n elements is viewed as one row of n, on the same buffer.
atleast_2d(arr) ==
    IF NDim(arr) = 1 THEN Handle(arr.buf, <<1, arr.shape[1]>>) ELSE arr

\* np.linalg.norm of the three components of a row.
norm(c1, c2, c3) == Sqrt(Add(Add(Mul(c1, c1), Mul(c2, c2)), Mul(c3, c3)))

\* The norm of row i of a 2-D array.
RowNorm(h, arr, i) == norm(At2(h, arr, i, 1), At2(h, arr, i, 2), At2(h, arr, i, 3))

\* np.array([c1, c2, c3]).T of three 1-D arrays of N elements: a new (N,3) array.
Stack3T(h, c1, c2, c3) ==
    New(h, [t \in 1..(3 * c1.shape[1]) |->
               At1(h, CASE t % 3 = 1 -> c1 [] t % 3 = 2 -> c2 [] OTHER -> c3, ((t - 1) \div 3) + 1)],
        <<c1.shape[1], 3>>)

\* arr[:, j] read into a 1-D array (the code reads it through a view).
Column(h, arr, j) ==
    IF NDim(arr) # 2 THEN IndexError(h)
    ELSE New(h, [i \in 1..arr.shape[1] |-> At2(h, arr, i, j)], <<arr.shape[1]>>)

(***************************************************************************)
(* A function body runs on a frame: the heap, the exception raised so far  *)
(* (none: ""), the argument, and the local variables assigned so far.      *)
(* There is one definition per statement, named after the variable the     *)
(* statement assigns.                                                      *)
(***************************************************************************)
Locals ==
    { "r", "unit", "theta", "phi", "coord", "cos_theta", "x", "y", "z",
      "spherical_vect", "D", "dec", "ra", "d", "detJ", "out" }

Frame(h, arg) == [h |-> h, err |-> "", arg |-> arg, loc |-> [n \in Locals |-> None]]

\* name = res: the statement is skipped after an exception, and raises what res raises.
Bind(e, name, res) ==
    IF e.err # "" THEN e
    ELSE IF res.v.err # "" THEN [e EXCEPT !.h = res.h, !.err = res.v.err]
    ELSE [e EXCEPT !.h = res.h, !.loc = [n \in Locals |-> IF n = name THEN res.v ELSE @[n]]]

\* return name
Return(e, name) == [h |-> e.h, v |-> IF e.err # "" THEN Raise(e.err) ELSE e.loc[name]]

\* r = np.linalg.norm(vector, axis = -1): one norm per row (of a 1-D array: its norm).
cartesian_to_spherical_r(e) ==
    Bind(e, "r",
         IF NDim(e.arg) = 2
         THEN New(e.h, [i \in 1..e.arg.shape[1] |-> RowNorm(e.h, e.arg, i)], <<e.arg.shape[1]>>)
         ELSE New(e.h, <<norm(At1(e.h, e.arg, 1), At1(e.h, e.arg, 2), At1(e.h, e.arg, 3))>>, <<>>))

\* Variant of UnitRows that normalises in place (for v in vector: v /= norm(v)):
\* it writes the buffer of vector and returns a handle on it.
UnitRowsInPlace(h, vector) ==
    [h |-> [h EXCEPT ![vector.buf] =
                  [t \in 1..Len(@) |->
                      IF NDim(vector) = 2
                      THEN Div(@[t], RowNorm(h, vector, ((t - 1) \div 3) + 1))
                      ELSE Div(@[t], Sqrt(Mul(@[t], @[t])))]],
     v |-> vector]

\* Variant of UnitRows that divides as Python floats do: a zero norm raises.
UnitRowsTrapped(h, vector) ==
    IF NDim(vector) = 2 /\ (\E i \in 1..vector.shape[1] : IsZero(RowNorm(h, vector, i)))
    THEN [h |-> h, v |-> Raise("ZeroDivisionError")]
    ELSE IF NDim(vector) = 2
    THEN New(h, [t \in 1..(3 * vector.shape[1]) |->
                    Div(h[vector.buf][t], RowNorm(h, vector, ((t - 1) \div 3) + 1))],
             IF vector.shape[1] = 0 THEN <<0>> ELSE <<vector.shape[1], 3>>)
    ELSE New(h, [t \in 1..vector.shape[1] |->
                    Div(At1(h, vector, t), Sqrt(Mul(At1(h, vector, t), At1(h, vector, t))))],
             vector.shape)

\* np.array([v/np.linalg.norm(v) for v in vector]): a new (N,3) array of the rows
\* divided by their norms; of no rows, the empty 1-D array np.array([]); of a 1-D
\* vector, whose elements v are scalars, the 1-D array of v/|v|.
UnitRows(h, vector) ==
    IF NDim(vector) = 2
    THEN New(h, [t \in 1..(3 * vector.shape[1]) |->
                    Div(h[vector.buf][t], RowNorm(h, vector, ((t - 1) \div 3) + 1))],
             IF vector.shape[1] = 0 THEN <<0>> ELSE <<vector.shape[1], 3>>)
    ELSE New(h, [t \in 1..vector.shape[1] |->
                    Div(At1(h, vector, t), Sqrt(Mul(At1(h, vector, t), At1(h, vector, t))))],
             vector.shape)

cartesian_to_spherical_unit(e) == Bind(e, "unit", UnitRows(e.h, e.arg))

\* theta = np.arcsin(unit[:,2])
cartesian_to_spherical_theta(e) ==
    Bind(e, "theta",
         IF NDim(e.loc.unit) # 2 THEN IndexError(e.h)
         ELSE New(e.h, [i \in 1..e.loc.unit.shape[1] |-> ArcSin(At2(e.h, e.loc.unit, i, 3))],
                  <<e.loc.unit.shape[1]>>))

\* Variant of phi with the arguments in the order arctan2(y, x).
cartesian_to_spherical_phi_yx(e) ==
    Bind(e, "phi",
         New(e.h, [i \in 1..e.loc.unit.shape[1] |->
                      ArcTan2(At2(e.h, e.loc.unit, i, 2), At2(e.h, e.loc.unit, i, 1))],
             <<e.loc.unit.shape[1]>>))

\* phi = np.arctan2(unit[:,0], unit[:,1])
cartesian_to_spherical_phi(e) ==
    Bind(e, "phi",
         New(e.h, [i \in 1..e.loc.unit.shape[1] |->
                      ArcTan2(At2(e.h, e.loc.unit, i, 1), At2(e.h, e.loc.unit, i, 2))],
             <<e.loc.unit.shape[1]>>))

\* Variant of ShiftNegative that shifts phi <= 0.
ShiftNonPositive(h, phi) ==
    [h EXCEPT ![phi.buf] = [i \in 1..Len(@) |->
                               IF Less0(@[i]) \/ IsZero(@[i])
                               THEN Add(@[i], Mul(Two, Pi)) ELSE @[i]]]

\* phi[phi<0] += 2*np.pi: in place, on the buffer of phi.
ShiftNegative(h, phi) ==
    [h EXCEPT ![phi.buf] = [i \in 1..Len(@) |->
                               IF Less0(@[i]) THEN Add(@[i], Mul(Two, Pi)) ELSE @[i]]]

cartesian_to_spherical_shift(e) ==
    IF e.err # "" THEN e ELSE [e EXCEPT !.h = ShiftNegative(e.h, e.loc.phi)]

\* coord = np.array([r,theta,phi]).T
cartesian_to_spherical_coord(e) ==
    Bind(e, "coord", Stack3T(e.h, e.loc.r, e.loc.theta, e.loc.phi))

cartesian_to_spherical(h, vector) ==
    Return(cartesian_to_spherical_coord(cartesian_to_spherical_shift(
           cartesian_to_spherical_phi(cartesian_to_spherical_theta(
           cartesian_to_spherical_unit(cartesian_to_spherical_r(Frame(h, vector))))))),
           "coord")

\* cos_theta = np.cos(vector[:,1])
spherical_to_cartesian_cos_theta(e) ==
    Bind(e, "cos_theta",
         IF NDim(e.arg) # 2 THEN IndexError(e.h)
         ELSE New(e.h, [i \in 1..e.arg.shape[1] |-> Cos(At2(e.h, e.arg, i, 2))],
                  <<e.arg.shape[1]>>))

\* Variant of x with the cosine of the azimuth (the formula of y).
spherical_to_cartesian_x_cos(e) ==
    Bind(e, "x",
         New(e.h, [i \in 1..e.arg.shape[1] |->
                      Mul(Mul(At2(e.h, e.arg, i, 3), Cos(At2(e.h, e.arg, i, 1))),
                          At1(e.h, e.loc.cos_theta, i))],
             <<e.arg.shape[1]>>))

\* x = vector[:,2] * np.sin(vector[:,0]) * cos_theta
spherical_to_cartesian_x(e) ==
    Bind(e, "x",
         New(e.h, [i \in 1..e.arg.shape[1] |->
                      Mul(Mul(At2(e.h, e.arg, i, 3), Sin(At2(e.h, e.arg, i, 1))),
                          At1(e.h, e.loc.cos_theta, i))],
             <<e.arg.shape[1]>>))

\* y = vector[:,2] * np.cos(vector[:,0]) * cos_theta
spherical_to_cartesian_y(e) ==
    Bind(e, "y",
         New(e.h, [i \in 1..e.arg.shape[1] |->
                      Mul(Mul(At2(e.h, e.arg, i, 3), Cos(At2(e.h, e.arg, i, 1))),
                          At1(e.h, e.loc.cos_theta, i))],
             <<e.arg.shape[1]>>))

\* z = vector[:,2] * np.sin(vector[:,1])
spherical_to_cartesian_z(e) ==
    Bind(e, "z",
         New(e.h, [i \in 1..e.arg.shape[1] |->
                      Mul(At2(e.h, e.arg, i, 3), Sin(At2(e.h, e.arg, i, 2)))],
             <<e.arg.shape[1]>>))

\* return np.array([x,y,z]).T
spherical_to_cartesian_out(e) ==
    Bind(e, "out", Stack3T(e.h, e.loc.x, e.loc.y, e.loc.z))

spherical_to_cartesian(h, vector) ==
    Return(spherical_to_cartesian_out(spherical_to_cartesian_z(spherical_to_cartesian_y(
           spherical_to_cartesian_x(spherical_to_cartesian_cos_theta(Frame(h, vector)))))),
           "out")

celestial_to_cartesian(h, celestial_vect) ==
    spherical_to_cartesian(h, atleast_2d(celestial_vect))

\* spherical_vect = cartesian_to_spherical(cartesian_vect), after np.atleast_2d
cartesian_to_celestial_spherical_vect(e) ==
    Bind(e, "spherical_vect", cartesian_to_spherical(e.h, atleast_2d(e.arg)))

\* D = spherical_vect[:,0]
cartesian_to_celestial_D(e) == Bind(e, "D", Column(e.h, e.loc.spherical_vect, 1))

\* dec = spherical_vect[:,1]
cartesian_to_celestial_dec(e) == Bind(e, "dec", Column(e.h, e.loc.spherical_vect, 2))

\* ra = spherical_vect[:,2]
cartesian_to_celestial_ra(e) == Bind(e, "ra", Column(e.h, e.loc.spherical_vect, 3))

\* Variant of the return that keeps the column order [r, theta, phi].
cartesian_to_celestial_out_unpermuted(e) ==
    Bind(e, "out", Stack3T(e.h, e.loc.D, e.loc.dec, e.loc.ra))

\* return np.array([ra, dec, D]).T
cartesian_to_celestial_out(e) ==
    Bind(e, "out", Stack3T(e.h, e.loc.ra, e.loc.dec, e.loc.D))

cartesian_to_celestial(h, cartesian_vect) ==
    Return(cartesian_to_celestial_out(cartesian_to_celestial_ra(cartesian_to_celestial_dec(
           cartesian_to_celestial_D(cartesian_to_celestial_spherical_vect(
           Frame(h, cartesian_vect)))))),
           "out")

\* d = celestial_vect[:,2]
Jacobian_in_celestial_d(e) == Bind(e, "d", Column(e.h, e.arg, 3))

\* Variant of theta read from column 0 (ra).
Jacobian_in_celestial_theta_col0(e) == Bind(e, "theta", Column(e.h, e.arg, 1))

\* theta = celestial_vect[:,1]
Jacobian_in_celestial_theta(e) == Bind(e, "theta", Column(e.h, e.arg, 2))

\* return d*d*np.cos(theta)
Jacobian_in_celestial_out(e) ==
    Bind(e, "out",
         New(e.h, [i \in 1..e.loc.d.shape[1] |->
                      Mul(Mul(At1(e.h, e.loc.d, i), At1(e.h, e.loc.d, i)),
                          Cos(At1(e.h, e.loc.theta, i)))],
             e.loc.d.shape))

Jacobian_in_celestial(h, celestial_vect) ==
    Return(Jacobian_in_celestial_out(Jacobian_in_celestial_theta(Jacobian_in_celestial_d(
           Frame(h, celestial_vect)))),
           "out")

\* cartesian_to_celestial(np.atleast_2d(cartesian_vect))
Jacobian_celestial(e) ==
    Bind(e, "spherical_vect", cartesian_to_celestial(e.h, atleast_2d(e.arg)))

\* return Jacobian_in_celestial(...)
Jacobian_out(e) == Bind(e, "out", Jacobian_in_celestial(e.h, e.loc.spherical_vect))

Jacobian(h, cartesian_vect) ==
    Return(Jacobian_out(Jacobian_celestial(Frame(h, cartesian_vect))), "out")

\* detJ = Jacobian_in_celestial(np.atleast_2d(celestial_vect))
inv_Jacobian_detJ(e) == Bind(e, "detJ", Jacobian_in_celestial(e.h, atleast_2d(e.arg)))

\* Variant of the return that traps a zero determinant.
inv_Jacobian_out_trapped(e) ==
    Bind(e, "out",
         IF \E i \in 1..e.loc.detJ.shape[1] : IsZero(At1(e.h, e.loc.detJ, i))
         THEN [h |-> e.h, v |-> Raise("ZeroDivisionError")]
         ELSE New(e.h, [i \in 1..e.loc.detJ.shape[1] |-> Div(One, At1(e.h, e.loc.detJ, i))],
                  e.loc.detJ.shape))

\* return 1/detJ
inv_Jacobian_out(e) ==
    Bind(e, "out",
         New(e.h, [i \in 1..e.loc.detJ.shape[1] |-> Div(One, At1(e.h, e.loc.detJ, i))],
             e.loc.detJ.shape))

inv_Jacobian(h, celestial_vect) ==
    Return(inv_Jacobian_out(inv_Jacobian_detJ(Frame(h, celestial_vect))), "out")

(***************************************************************************)
(* The caller.  It owns one array, vec, of rows in one coordinate frame    *)
(* (or a single 3-vector), passes it to any of the seven functions, any    *)
(* number of times, and keeps what the last call returned.                 *)
(***************************************************************************)
VARIABLES
    vec,    \* the caller's array: [shape, data], data being its buffer
    last,   \* the function called last ("none" before the first call)
    ret     \* what it returned: [err, shape, data]; err names an exception raised

vars == <<vec, last, ret>>

\* The largest number of rows of a batch.
MaxRows == 2

\* Cartesian rows [x, y, z]: on the axes, off the axes (unit and of length 2), and zero.
CartPool ==
    { <<One, Zero, Zero>>, <<Zero, One, Zero>>, <<Zero, Zero, One>>,
      <<Q(-1, 0, 1), Zero, Zero>>, <<Zero, Q(-2, 0, 1), Zero>>, <<Zero, Zero, Q(-1, 0, 1)>>,
      <<Q(3, 0, 4), Q(0, 1, 4), Q(1, 0, 2)>>,
      <<Q(-3, 0, 2), Q(0, -1, 2), Q(-1, 0, 1)>>,
      <<Q(-1, 0, 2), Q(0, 1, 2), Zero>>,
      <<Q(0, 1, 4), Q(-1, 0, 4), Q(0, 1, 2)>>,
      <<Zero, Zero, Zero>> }

\* Celestial rows [ra, dec, D], the angles in units of pi/6.  A row with cos(dec) = 0
\* has D = 0: the reciprocal of D^2 * cos(dec) there rests on the rounding of cos.
CelPool ==
    { <<Zero, Zero, Two>>, <<Zero, Ang(2), Two>>, <<Ang(3), Ang(2), Two>>,
      <<Ang(2), Ang(1), One>>, <<Ang(9), Zero, One>>, <<Ang(6), Ang(-2), One>>,
      <<Zero, Ang(4), One>>,
      <<Zero, Zero, Zero>>, <<Zero, Ang(6), Zero>>, <<Ang(3), Ang(3), Zero>> }

\* The buffer of an (N,3) array of the given rows.
Flat(rows) == [t \in 1..(3 * Len(rows)) |-> rows[((t - 1) \div 3) + 1][((t - 1) % 3) + 1]]

\* Row i of an (N,3) array.
Row(arr, i) == <<arr.data[3 * i - 2], arr.data[3 * i - 1], arr.data[3 * i]>>

Batch(rows) == [shape |-> <<Len(rows), 3>>, data |-> Flat(rows)]
Batches(pool) == {Batch(rows) : rows \in UNION {[1..n -> pool] : n \in 0..MaxRows}}
Single(row) == [shape |-> <<3>>, data |-> row]

Functions ==
    { "cartesian_to_spherical", "spherical_to_cartesian", "celestial_to_cartesian",
      "cartesian_to_celestial", "Jacobian", "inv_Jacobian", "Jacobian_in_celestial" }

Apply(f, h, arr) ==
    CASE f = "cartesian_to_spherical" -> cartesian_to_spherical(h, arr)
      [] f = "spherical_to_cartesian" -> spherical_to_cartesian(h, arr)
      [] f = "celestial_to_cartesian" -> celestial_to_cartesian(h, arr)
      [] f = "cartesian_to_celestial" -> cartesian_to_celestial(h, arr)
      [] f = "Jacobian" -> Jacobian(h, arr)
      [] f = "inv_Jacobian" -> inv_Jacobian(h, arr)
      [] f = "Jacobian_in_celestial" -> Jacobian_in_celestial(h, arr)

\* What the caller sees of a call: the exception, or the array returned.
Outcome(out) ==
    IF out.v.err # "" THEN [err |-> out.v.err, shape |-> <<>>, data |-> <<>>]
    ELSE [err |-> "", shape |-> out.v.shape, data |-> out.h[out.v.buf]]

\* The call f(arr) on a heap holding the buffer of arr alone.
Run(f, arr) == Apply(f, <<arr.data>>, Handle(1, arr.shape))

\* What f(arr) returns.
Result(f, arr) == Outcome(Run(f, arr))

Init ==
    /\ vec \in Batches(CartPool) \cup Batches(CelPool)
                \cup {Single(row) : row \in CartPool \cup CelPool}
    /\ last = "none"
    /\ ret = [err |-> "", shape |-> <<0>>, data |-> <<>>]

\* The caller's heap before a call (the buffer of vec) and its handle on vec.
Heap0 == <<vec.data>>
Arg0 == Handle(1, vec.shape)

\* The caller calls a function on vec: the buffer of vec is left as the call leaves it.
Call_cartesian_to_spherical ==
    LET out == cartesian_to_spherical(Heap0, Arg0)
    IN  /\ vec' = [vec EXCEPT !.data = out.h[1]]
        /\ last' = "cartesian_to_spherical"
        /\ ret' = Outcome(out)

Call_spherical_to_cartesian ==
    LET out == spherical_to_cartesian(Heap0, Arg0)
    IN  /\ vec' = [vec EXCEPT !.data = out.h[1]]
        /\ last' = "spherical_to_cartesian"
        /\ ret' = Outcome(out)

Call_celestial_to_cartesian ==
    LET out == celestial_to_cartesian(Heap0, Arg0)
    IN  /\ vec' = [vec EXCEPT !.data = out.h[1]]
        /\ last' = "celestial_to_cartesian"
        /\ ret' = Outcome(out)

Call_cartesian_to_celestial ==
    LET out == cartesian_to_celestial(Heap0, Arg0)
    IN  /\ vec' = [vec EXCEPT !.data = out.h[1]]
        /\ last' = "cartesian_to_celestial"
        /\ ret' = Outcome(out)

Call_Jacobian ==
    LET out == Jacobian(Heap0, Arg0)
    IN  /\ vec' = [vec EXCEPT !.data = out.h[1]]
        /\ last' = "Jacobian"
        /\ ret' = Outcome(out)

Call_inv_Jacobian ==
    LET out == inv_Jacobian(Heap0, Arg0)
    IN  /\ vec' = [vec EXCEPT !.data = out.h[1]]
        /\ last' = "inv_Jacobian"
        /\ ret' = Outcome(out)

Call_Jacobian_in_celestial ==
    LET out == Jacobian_in_celestial(Heap0, Arg0)
    IN  /\ vec' = [vec EXCEPT !.data = out.h[1]]
        /\ last' = "Jacobian_in_celestial"
        /\ ret' = Outcome(out)

Next ==
    \/ Call_cartesian_to_spherical
    \/ Call_spherical_to_cartesian
    \/ Call_celestial_to_cartesian
    \/ Call_cartesian_to_celestial
    \/ Call_Jacobian
    \/ Call_inv_Jacobian
    \/ Call_Jacobian_in_celestial

Spec == Init /\ [][Next]_vars

(***************************************************************************)
(* Vocabulary of the properties.                                           *)
(***************************************************************************)
ZeroRow == <<Zero, Zero, Zero>>
Ok(res) == res.err = ""
IsBatch(arr) == Len(arr.shape) = 2

\* Row i of vec is a Cartesian vector of non-zero length.
NonZeroCart(i) == Row(vec, i) \in CartPool \ {ZeroRow}

\* Equal within the tolerance of the doubles: the two zeros are one value.
Close(v, w) == v = w \/ (IsZero(v) /\ IsZero(w))
RowClose(p, q) == \A j \in 1..3 : Close(p[j], q[j])

\* The (N,3) array arr with column j taken from column p[j].
Permute(arr, p) ==
    [shape |-> arr.shape,
     data |-> [t \in 1..Len(arr.data) |-> arr.data[3 * ((t - 1) \div 3) + p[((t - 1) % 3) + 1]]]]

\* v is the angle n * pi/6 for an n in lo..hi.
AngleIn(v, lo, hi) ==
    \/ (IsZero(v) /\ lo <= 0 /\ 0 <= hi)
    \/ (v.k = "ang" /\ lo <= v.a /\ v.a <= hi)

\* The rows of vec, and its rows spherical_to_cartesian and the others return a row for.
RowsOf(arr) == [i \in 1..arr.shape[1] |-> Row(arr, i)]

(***************************************************************************)
(* C1.  cartesian_to_celestial followed by celestial_to_cartesian, the     *)
(* [ra, dec, D] rows passed on as they are, gives back every Cartesian row *)
(* of non-zero length.                                                     *)
(***************************************************************************)
C1_RoundTrip ==
    (last = "cartesian_to_celestial" /\ Ok(ret)) =>
        LET back == Result("celestial_to_cartesian", ret)
        IN  /\ Ok(back)
            /\ back.shape = ret.shape
            /\ \A i \in 1..ret.shape[1] :
                  NonZeroCart(i) => RowClose(Row(back, i), Row(vec, i))

C1_Witness ==
    /\ last = "cartesian_to_celestial"
    /\ vec.shape = <<2, 3>>
    /\ Row(vec, 1) = <<Q(-3, 0, 2), Q(0, -1, 2), MinusOne>>
    /\ Row(vec, 2) = <<Q(0, 1, 4), Q(-1, 0, 4), Q(0, 1, 2)>>
    /\ Row(ret, 1) = <<Ang(8), Ang(-1), Two>>
    /\ Row(Result("celestial_to_cartesian", ret), 1) = Row(vec, 1)

C4_RaZero ==
    (last = "cartesian_to_celestial" /\ vec.data = <<One, Zero, Zero>>) =>
        /\ Ok(ret)
        /\ ret.shape = <<1, 3>>
        /\ (Close(ret.data[1], Zero) \/ ret.data[1] = Ang(12))
        /\ Close(ret.data[2], Zero)
        /\ ret.data[3] = One
        /\ RowClose(Row(Result("celestial_to_cartesian", ret), 1), <<One, Zero, Zero>>)

\* C4 as amended: cartesian_to_celestial([1,0,0]) returns ra = pi/2 (the azimuth is
\* arctan2(x, y), measured from the y axis), dec = 0 and D = 1, and
\* celestial_to_cartesian of that result is [1,0,0].
C4_RaHalfPi ==
    (last = "cartesian_to_celestial" /\ vec.data = <<One, Zero, Zero>>) =>
        /\ Ok(ret)
        /\ ret.shape = <<1, 3>>
        /\ ret.data[1] = Ang(3)
        /\ Close(ret.data[2], Zero)
        /\ ret.data[3] = One
        /\ RowClose(Row(Result("celestial_to_cartesian", ret), 1), <<One, Zero, Zero>>)

C4_Witness ==
    /\ last = "cartesian_to_celestial"
    /\ vec = Batch(<< <<One, Zero, Zero>> >>)
    /\ ret.data = <<Ang(3), Zero, One>>

(***************************************************************************)
(* C5.  Jacobian_in_celestial returns, for (N,3) rows [ra, dec, D], N      *)
(* scalars in row order, each D^2 * cos(dec) of its row whatever the ra:   *)
(* 4 for [0, 0, 2] and 2 for [0, pi/3, 2].                                 *)
(***************************************************************************)
C5_Jacobian ==
    (last = "Jacobian_in_celestial" /\ IsBatch(vec)) =>
        /\ Ok(ret)
        /\ ret.shape = <<vec.shape[1]>>
        /\ \A i \in 1..vec.shape[1] :
              Row(vec, i) \in CelPool =>
                  /\ ret.data[i] = Mul(Mul(Row(vec, i)[3], Row(vec, i)[3]), Cos(Row(vec, i)[2]))
                  /\ (Row(vec, i) = <<Zero, Zero, Two>> => ret.data[i] = Q(4, 0, 1))
                  /\ (Row(vec, i) = <<Zero, Ang(2), Two>> => ret.data[i] = Two)
                  /\ \A other \in {Zero, Ang(3), Ang(7)} :
                        Result("Jacobian_in_celestial",
                               Batch(<< <<other, Row(vec, i)[2], Row(vec, i)[3]>> >>)).data[1]
                            = ret.data[i]

C5_Witness ==
    /\ last = "Jacobian_in_celestial"
    /\ vec = Batch(<< <<Zero, Ang(2), Two>>, <<Ang(2), Ang(1), One>> >>)
    /\ ret.data = <<Two, Q(0, 1, 2)>>

(***************************************************************************)
(* C6.  As claimed: inv_Jacobian returns 1/(D^2 * cos(dec)) per row, its   *)
(* product with Jacobian_in_celestial being 1 where the determinant is not *)
(* zero; a row with D = 0 raises nothing and gets +infinity, and the other *)
(* rows of the batch get what they get alone.                              *)
(***************************************************************************)
Det(row) == Mul(Mul(row[3], row[3]), Cos(row[2]))

C6_Reciprocal(i) ==
    /\ ret.data[i] = Div(One, Det(Row(vec, i)))
    /\ ~IsZero(Det(Row(vec, i))) =>
          Mul(ret.data[i], Result("Jacobian_in_celestial", Batch(RowsOf(vec))).data[i]) = One
    /\ ret.data[i] = Result("inv_Jacobian", Batch(<<Row(vec, i)>>)).data[1]

C6_PlusInfinity ==
    (last = "inv_Jacobian" /\ IsBatch(vec)) =>
        /\ Ok(ret)
        /\ ret.shape = <<vec.shape[1]>>
        /\ \A i \in 1..vec.shape[1] :
              Row(vec, i) \in CelPool =>
                  /\ C6_Reciprocal(i)
                  /\ IsZero(Row(vec, i)[3]) => ret.data[i] = PosInf

\* C6 as amended: a row with D = 0 gets +infinity when its dec is in [-pi/2, pi/2]
\* and -infinity when cos(dec) < 0 (the determinant is then -0.0); the rest as claimed.
C6_SignedInfinity ==
    (last = "inv_Jacobian" /\ IsBatch(vec)) =>
        /\ Ok(ret)
        /\ ret.shape = <<vec.shape[1]>>
        /\ \A i \in 1..vec.shape[1] :
              Row(vec, i) \in CelPool =>
                  /\ C6_Reciprocal(i)
                  /\ (IsZero(Row(vec, i)[3]) /\ AngleIn(Row(vec, i)[2], -3, 3)) =>
                        ret.data[i] = PosInf
                  /\ (IsZero(Row(vec, i)[3]) /\ Less0(Cos(Row(vec, i)[2]))) =>
                        ret.data[i] = NegInf

C6_Witness ==
    /\ last = "inv_Jacobian"
    /\ vec = Batch(<< <<Ang(3), Ang(3), Zero>>, <<Zero, Ang(4), One>> >>)
    /\ ret.data = <<PosInf, Q(-2, 0, 1)>>

(***************************************************************************)
(* C7.  Batch invariance: each of the seven functions returns, for a batch *)
(* of N rows, N rows in input order, row i being what the function returns *)
(* for the one-row batch of input row i.                                   *)
(***************************************************************************)
C7_RowOf(res, i) ==
    IF Len(res.shape) = 2 THEN Row(res, i) ELSE <<res.data[i]>>

C7_BatchInvariance ==
    (last \in Functions /\ IsBatch(vec)) =>
        /\ Ok(ret)
        /\ ret.shape[1] = vec.shape[1]
        /\ \A i \in 1..vec.shape[1] :
              C7_RowOf(ret, i) = C7_RowOf(Result(last, Batch(<<Row(vec, i)>>)), 1)

\* The same of the batches of at least one row.
C7_NonEmpty ==
    (last \in Functions /\ IsBatch(vec) /\ vec.shape[1] >= 1) =>
        /\ Ok(ret)
        /\ ret.shape[1] = vec.shape[1]
        /\ \A i \in 1..vec.shape[1] :
              C7_RowOf(ret, i) = C7_RowOf(Result(last, Batch(<<Row(vec, i)>>)), 1)

(***************************************************************************)
(* C8.  No call changes the array passed to it, and what a call returns    *)
(* is a function of its argument alone.                                    *)
(***************************************************************************)
C8_Pure == [][vec' = vec /\ ret' = Result(last', vec)]_vars

C8_Witness ==
    /\ last = "cartesian_to_celestial"
    /\ vec = Single(<<MinusOne, Zero, Zero>>)
    /\ ret.data = <<Ang(9), Zero, One>>

(***************************************************************************)
(* C9.  cartesian_to_spherical, cartesian_to_celestial and Jacobian raise  *)
(* nothing on a batch holding the zero vector: that row gets r (D) = 0 and *)
(* NaN angles, and every other row what it gets in the batch without the   *)
(* zero rows.                                                              *)
(***************************************************************************)
C9_NonZeroRows == SelectSeq(RowsOf(vec), LAMBDA row : row # ZeroRow)
C9_Position(i) == Cardinality({j \in 1..i : Row(vec, j) # ZeroRow})

C9_ZeroVector ==
    (/\ last \in {"cartesian_to_spherical", "cartesian_to_celestial", "Jacobian"}
     /\ IsBatch(vec)
     /\ \E i \in 1..vec.shape[1] : Row(vec, i) = ZeroRow) =>
        /\ Ok(ret)
        /\ \A i \in 1..vec.shape[1] :
              IF Row(vec, i) = ZeroRow
              THEN CASE last = "cartesian_to_spherical" -> Row(ret, i) = <<Zero, NaN, NaN>>
                     [] last = "cartesian_to_celestial" -> Row(ret, i) = <<NaN, NaN, Zero>>
                     [] OTHER -> ret.data[i] = NaN
              ELSE (Len(C9_NonZeroRows) >= 1) =>
                      C7_RowOf(ret, i)
                          = C7_RowOf(Result(last, Batch(C9_NonZeroRows)), C9_Position(i))

C9_Witness ==
    /\ last = "cartesian_to_spherical"
    /\ vec = Batch(<< ZeroRow, <<MinusOne, Zero, Zero>> >>)
    /\ ret.data = <<Zero, NaN, NaN, One, Zero, Ang(9)>>

(***************************************************************************)
(* C10.  celestial_to_cartesian, cartesian_to_celestial, Jacobian and      *)
(* inv_Jacobian return for a single 3-vector what they return for the 1x3  *)
(* batch holding it, a (1,3) array or an array of one scalar; an (N,3)     *)
(* array goes through the coercion as it is.                               *)
(***************************************************************************)
C10_Coerced ==
    /\ (vec.shape = <<3>> /\ last \in {"celestial_to_cartesian", "cartesian_to_celestial"}) =>
          /\ Ok(ret)
          /\ ret.shape = <<1, 3>>
          /\ ret = Result(last, Batch(<<vec.data>>))
    /\ (vec.shape = <<3>> /\ last \in {"Jacobian", "inv_Jacobian"}) =>
          /\ Ok(ret)
          /\ ret.shape = <<1>>
          /\ ret = Result(last, Batch(<<vec.data>>))
    /\ IsBatch(vec) => atleast_2d(Arg0) = Arg0

C10_Witness ==
    /\ last = "inv_Jacobian"
    /\ vec = Single(<<Zero, Zero, Two>>)
    /\ ret.shape = <<1>>
    /\ ret.data = <<Q(1, 0, 4)>>

=============================================================================
